---- MODULE Spec2Model ----
(***************************************************************************)
(* Model of src/bin/boat.py: class Boat, a synchronous, single-threaded    *)
(* MAVLink command shim.  Every public method is one atomic action; the    *)
(* private helpers are operators over a record of the object's fields.     *)
(* The Link (pymavlink connection) is the environment: what recv_match and *)
(* wait_heartbeat return is chosen by \E, what the methods send is         *)
(* collected in `link` for the call that has just returned.                *)
(***************************************************************************)
EXTENDS Integers, Sequences, FiniteSets, TLC

VARIABLES
    connected,               \* self.__connected
    heartbeat_received,      \* self.__heartbeat_received
    status,                  \* self.__status
    control_authority,       \* self.__control_authority
    current_rudder_value,    \* self.__current_rudder_value
    current_throttle_value,  \* self.__current_throttle_value
    rc_channel_11_value,     \* self.rc_channel_11_value
    link,                    \* messages the last call sent to the Link, oldest first
    call                     \* the last call: name, arguments, result, fields before it

vars == <<connected, heartbeat_received, status, control_authority,
          current_rudder_value, current_throttle_value, rc_channel_11_value,
          link, call>>

----------------------------------------------------------------------------
(* Bounds of the model *)

\* How far beyond each threshold of the code the sampled integers reach.
MaxDelta == 1

----------------------------------------------------------------------------
(* Enumerations and literals of the source *)

Status == {"UNDEFINED", "ARMED", "DISARMED", "EMERGENCY"}

ControlAuthority == {"UNDEFINED", "MANUAL", "REMOTE", "AUTOMATIC"}

\* ControlAuthority.<name>.value
AuthorityValue(a) ==
    CASE a = "UNDEFINED" -> -1
      [] a = "MANUAL"    -> 0
      [] a = "REMOTE"    -> 1
      [] a = "AUTOMATIC" -> 2

CENTER == 1500
SETPOINT_MIN == 1100
SETPOINT_MAX == 1900
SERVO_MIN == 1000
SERVO_MAX == 2000
MODE_SWITCH_THRESHOLD == 1500
PROPULSION_RELAY == 1
MAV_MODE_FLAG_SAFETY_ARMED == 128

\* Python's None where an integer is expected, and an attribute not yet set.
None == -1
NoAttr == -2

----------------------------------------------------------------------------
(* Messages sent to the Link *)

\* mav.rc_channels_override_send(target_system, target_component, c1 .. c8)
RcOverride(c) == [type |-> "RC_CHANNELS_OVERRIDE", command |-> "", p |-> c]

\* mav.command_long_send(target_system, target_component, command, 0, p1 .. p7)
CommandLong(cmd, p) == [type |-> "COMMAND_LONG", command |-> cmd, p |-> p]

----------------------------------------------------------------------------
(* Messages received from the Link *)

\* recv_match(type='RC_CHANNELS', timeout=1): nothing, a message without the
\* chan11_raw attribute, or a message carrying chan11_raw.
NoMessage == [kind |-> "none", chan11_raw |-> None, base_mode |-> 0, custom_mode |-> 0]

RcWithout == [kind |-> "rc_no_chan11", chan11_raw |-> None, base_mode |-> 0, custom_mode |-> 0]

RcWith(c) == [kind |-> "rc", chan11_raw |-> c, base_mode |-> 0, custom_mode |-> 0]

Heartbeat(bm, cm) == [kind |-> "heartbeat", chan11_raw |-> None, base_mode |-> bm, custom_mode |-> cm]

Chan11Values == {1400, MODE_SWITCH_THRESHOLD, 1600, 1700}

RcReplies == {NoMessage, RcWithout} \cup {RcWith(c) : c \in Chan11Values}

\* base_mode is a uint8 bit mask; 128 is the safety-armed bit.
BaseModes == {0, 81, 209}

FlightModes == {0, 1, 2, 4}

HeartbeatReplies == {NoMessage} \cup {Heartbeat(bm, 0) : bm \in BaseModes}

\* The heartbeats that answer the constructor's flight-mode query.
FlightModeReplies == {NoMessage} \cup {Heartbeat(209, cm) : cm \in FlightModes}

----------------------------------------------------------------------------
(* Arguments of the setters *)

\* An argument is an int, a float (n holds tenths) or a value int() rejects.
IntArg(n) == [kind |-> "int", n |-> n]

FloatArg(tenths) == [kind |-> "float", n |-> tenths]

BadArg == [kind |-> "bad", n |-> 0]

SetpointInts ==
    {SETPOINT_MIN - k : k \in 0..MaxDelta}
        \cup {SETPOINT_MAX + k : k \in 0..MaxDelta}
        \cup {1600, 2500}

SetpointArgs ==
    {IntArg(n) : n \in SetpointInts}
        \cup {FloatArg(16007), FloatArg(19009), BadArg}

ServoInts ==
    {SERVO_MIN - k : k \in 0..MaxDelta}
        \cup {SERVO_MAX + k : k \in 0..MaxDelta}
        \cup {1500}

ServoArgs == {<<1, p>> : p \in ServoInts} \cup {<<3, 1500>>}

\* Python int(x): identity on ints, truncation toward zero on floats,
\* ValueError/TypeError otherwise.
PyInt(x) ==
    CASE x.kind = "int"   -> [ok |-> TRUE, v |-> x.n]
      [] x.kind = "float" -> [ok |-> TRUE,
                              v |-> IF x.n >= 0 THEN x.n \div 10 ELSE -((-x.n) \div 10)]
      [] OTHER            -> [ok |-> FALSE, v |-> 0]

Min(a, b) == IF a < b THEN a ELSE b

Max(a, b) == IF a > b THEN a ELSE b

----------------------------------------------------------------------------
(* The object as a record: the fields, plus a log of the running call:     *)
(* out = what it has sent, outauth = the authority at each send, recvs =   *)
(* what it has asked of the Link and got, asks = the override decisions    *)
(* it has taken.                                                           *)

Self ==
    [connected |-> connected,
     heartbeat_received |-> heartbeat_received,
     status |-> status,
     control_authority |-> control_authority,
     current_rudder_value |-> current_rudder_value,
     current_throttle_value |-> current_throttle_value,
     rc_channel_11_value |-> rc_channel_11_value,
     out |-> <<>>,
     outauth |-> <<>>,
     recvs |-> <<>>,
     asks |-> <<>>]

Fields(b) ==
    [connected |-> b.connected,
     heartbeat_received |-> b.heartbeat_received,
     status |-> b.status,
     control_authority |-> b.control_authority,
     current_rudder_value |-> b.current_rudder_value,
     current_throttle_value |-> b.current_throttle_value,
     rc_channel_11_value |-> b.rc_channel_11_value]

\* A send primitive of the Link was called with message m.
Send(b, m) ==
    [b EXCEPT !.out = Append(@, m), !.outauth = Append(@, b.control_authority)]

\* A receive primitive of the Link was called and returned reply; a is the
\* object as the caller left it after handling the reply.  sent counts what
\* the handling sent, kept tells that it left setpoints, status and the
\* connected flag alone.
Recv(b, type, reply, a) ==
    [a EXCEPT !.recvs = Append(b.recvs,
        [type |-> type, reply |-> reply, nsent |-> Len(b.out),
         before |-> b.control_authority, after |-> a.control_authority,
         sent |-> Len(a.out) - Len(b.out),
         kept |-> /\ a.current_rudder_value = b.current_rudder_value
                  /\ a.current_throttle_value = b.current_throttle_value
                  /\ a.status = b.status
                  /\ a.connected = b.connected])]

\* The override decision was asked of object b and answered ret, leaving a.
Asked(b, a, ret) ==
    [a EXCEPT !.asks = Append(b.asks,
        [before |-> b.control_authority, after |-> a.control_authority,
         polls |-> Len(a.recvs) - Len(b.recvs), ret |-> ret])]

----------------------------------------------------------------------------
(* AuthorityArbiter *)

\* poll_rc_mode_switch that falls back to MANUAL when it learns nothing
poll_rc_mode_switch_failsafe(b, message) ==
    IF message.kind = "rc"
    THEN LET v  == message.chan11_raw
             b1 == [b EXCEPT !.rc_channel_11_value = v]
             b2 == IF v > MODE_SWITCH_THRESHOLD /\ b1.control_authority # "REMOTE"
                   THEN [b1 EXCEPT !.control_authority = "REMOTE"]
                   ELSE IF v < MODE_SWITCH_THRESHOLD /\ b1.control_authority # "MANUAL"
                        THEN [b1 EXCEPT !.control_authority = "MANUAL"]
                        ELSE b1
         IN  Recv(b, "RC_CHANNELS", message, b2)
    ELSE Recv(b, "RC_CHANNELS", message, [b EXCEPT !.control_authority = "MANUAL"])

\* poll_rc_mode_switch that forgets the authority when channel 11 is absent
poll_rc_mode_switch_reset(b, message) ==
    IF message.kind # "none"
    THEN LET v  == IF message.kind = "rc" THEN message.chan11_raw ELSE None
             b1 == [b EXCEPT !.rc_channel_11_value = v]
             b2 == IF v # None
                   THEN IF v > MODE_SWITCH_THRESHOLD /\ b1.control_authority # "REMOTE"
                        THEN [b1 EXCEPT !.control_authority = "REMOTE"]
                        ELSE IF v < MODE_SWITCH_THRESHOLD /\ b1.control_authority # "MANUAL"
                             THEN [b1 EXCEPT !.control_authority = "MANUAL"]
                             ELSE b1
                   ELSE [b1 EXCEPT !.control_authority = "UNDEFINED"]
         IN  Recv(b, "RC_CHANNELS", message, b2)
    ELSE Recv(b, "RC_CHANNELS", message, b)

\* poll_rc_mode_switch with the midpoint counted as the upper half
poll_rc_mode_switch_inclusive(b, message) ==
    IF message.kind # "none"
    THEN LET v  == IF message.kind = "rc" THEN message.chan11_raw ELSE None
             b1 == [b EXCEPT !.rc_channel_11_value = v]
             b2 == IF v # None
                   THEN IF v >= MODE_SWITCH_THRESHOLD /\ b1.control_authority # "REMOTE"
                        THEN [b1 EXCEPT !.control_authority = "REMOTE"]
                        ELSE IF v < MODE_SWITCH_THRESHOLD /\ b1.control_authority # "MANUAL"
                             THEN [b1 EXCEPT !.control_authority = "MANUAL"]
                             ELSE b1
                   ELSE b1
         IN  Recv(b, "RC_CHANNELS", message, b2)
    ELSE Recv(b, "RC_CHANNELS", message, b)

poll_rc_mode_switch(b, message) ==
    IF message.kind # "none"
    THEN LET v  == IF message.kind = "rc" THEN message.chan11_raw ELSE None
             b1 == [b EXCEPT !.rc_channel_11_value = v]
             b2 == IF v # None
                   THEN IF v > MODE_SWITCH_THRESHOLD /\ b1.control_authority # "REMOTE"
                        THEN [b1 EXCEPT !.control_authority = "REMOTE"]
                        ELSE IF v < MODE_SWITCH_THRESHOLD /\ b1.control_authority # "MANUAL"
                             THEN [b1 EXCEPT !.control_authority = "MANUAL"]
                             ELSE b1
                   ELSE b1
         IN  Recv(b, "RC_CHANNELS", message, b2)
    ELSE Recv(b, "RC_CHANNELS", message, b)

\* should_allow_rc_override that permits the override under every authority
should_allow_rc_override_always(b, message) ==
    LET b1 == IF b.control_authority = "UNDEFINED"
              THEN poll_rc_mode_switch(b, message)
              ELSE b
    IN  [boat |-> Asked(b, b1, TRUE), ret |-> TRUE]

\* should_allow_rc_override that asks for a mode above 0
should_allow_rc_override_positive(b, message) ==
    LET b1 == IF b.control_authority = "UNDEFINED"
              THEN poll_rc_mode_switch(b, message)
              ELSE b
        ret == AuthorityValue(b1.control_authority) > 0
    IN  [boat |-> Asked(b, b1, ret), ret |-> ret]

\* message is what the Link would answer if the method polls.
should_allow_rc_override(b, message) ==
    LET b1 == IF b.control_authority = "UNDEFINED"
              THEN poll_rc_mode_switch(b, message)
              ELSE b
        ret == AuthorityValue(b1.control_authority) # 0
    IN  [boat |-> Asked(b, b1, ret), ret |-> ret]

\* update_steering with the rudder in the third slot
update_steering_swapped(b) ==
    Send(b, RcOverride(<<b.current_throttle_value,
                         b.current_throttle_value,
                         b.current_rudder_value,
                         0, 0, 0, 0, 0>>))

update_steering(b) ==
    Send(b, RcOverride(<<b.current_rudder_value,
                         b.current_throttle_value,
                         b.current_throttle_value,
                         0, 0, 0, 0, 0>>))

keep_alive_rc_override(b) == update_steering(b)

\* check_rc_mode that refreshes the authority and sends nothing
check_rc_mode_poll_only(b, m1, m2) ==
    LET b1 == poll_rc_mode_switch(b, m1)
        r  == should_allow_rc_override(b1, m2)
    IN  r.boat

\* check_rc_mode that keeps the override alive only while connected
check_rc_mode_connected(b, m1, m2) ==
    LET b1 == poll_rc_mode_switch(b, m1)
        r  == should_allow_rc_override(b1, m2)
    IN  IF r.ret /\ r.boat.connected THEN keep_alive_rc_override(r.boat) ELSE r.boat

check_rc_mode(b, m1, m2) ==
    LET b1 == poll_rc_mode_switch(b, m1)
        r  == should_allow_rc_override(b1, m2)
    IN  IF r.ret THEN keep_alive_rc_override(r.boat) ELSE r.boat

----------------------------------------------------------------------------
(* ActuationController *)

\* set_rudder with the band's ends excluded
set_rudder_strict(b, steering_value, message) ==
    IF ~b.connected
    THEN b
    ELSE LET received_value == PyInt(steering_value) IN
         IF ~received_value.ok
         THEN b
         ELSE LET b1 == IF received_value.v > SETPOINT_MIN /\ received_value.v < SETPOINT_MAX
                        THEN [b EXCEPT !.current_rudder_value = PyInt(steering_value).v]
                        ELSE b
                  r  == should_allow_rc_override(b1, message)
              IN  IF r.ret THEN update_steering(r.boat) ELSE r.boat

set_rudder(b, steering_value, message) ==
    IF ~b.connected
    THEN b
    ELSE LET received_value == PyInt(steering_value) IN
         IF ~received_value.ok
         THEN b
         ELSE LET b1 == IF received_value.v >= SETPOINT_MIN /\ received_value.v <= SETPOINT_MAX
                        THEN [b EXCEPT !.current_rudder_value = PyInt(steering_value).v]
                        ELSE b
                  r  == should_allow_rc_override(b1, message)
              IN  IF r.ret THEN update_steering(r.boat) ELSE r.boat

\* set_throttle without the connection guard
set_throttle_unguarded(b, throttle_value, message) ==
    LET received_value == PyInt(throttle_value) IN
    IF ~received_value.ok
    THEN b
    ELSE LET b1 == IF received_value.v >= SETPOINT_MIN /\ received_value.v <= SETPOINT_MAX
                   THEN [b EXCEPT !.current_throttle_value = PyInt(throttle_value).v]
                   ELSE b
             r  == should_allow_rc_override(b1, message)
         IN  IF r.ret THEN update_steering(r.boat) ELSE r.boat

set_throttle(b, throttle_value, message) ==
    IF ~b.connected
    THEN b
    ELSE LET received_value == PyInt(throttle_value) IN
         IF ~received_value.ok
         THEN b
         ELSE LET b1 == IF received_value.v >= SETPOINT_MIN /\ received_value.v <= SETPOINT_MAX
                        THEN [b EXCEPT !.current_throttle_value = PyInt(throttle_value).v]
                        ELSE b
                  r  == should_allow_rc_override(b1, message)
              IN  IF r.ret THEN update_steering(r.boat) ELSE r.boat

\* set_throttle_differential running the statements after its raise
set_throttle_differential_silent(b, throttle_left, throttle_right) ==
    [boat |-> b, ret |-> "None"]

\* The raise is the first statement; the lines after it never run.
set_throttle_differential(b, throttle_left, throttle_right) ==
    [boat |-> b, ret |-> "NotImplementedError"]

\* set_raw_servo without the clamp
set_raw_servo_unclamped(b, servo_number, pwm_value) ==
    IF ~b.connected
    THEN b
    ELSE Send(b, CommandLong("MAV_CMD_DO_SET_SERVO",
                             <<servo_number, pwm_value, 0, 0, 0, 0, 0>>))

\* set_raw_servo behind the override gate of the setters
set_raw_servo_gated(b, servo_number, pwm_value) ==
    IF ~b.connected
    THEN b
    ELSE LET pwm == Max(SERVO_MIN, Min(pwm_value, SERVO_MAX))
             r   == should_allow_rc_override(b, NoMessage)
         IN  IF r.ret
             THEN Send(r.boat, CommandLong("MAV_CMD_DO_SET_SERVO",
                                           <<servo_number, pwm, 0, 0, 0, 0, 0>>))
             ELSE r.boat

set_raw_servo(b, servo_number, pwm_value) ==
    IF ~b.connected
    THEN b
    ELSE LET pwm == Max(SERVO_MIN, Min(pwm_value, SERVO_MAX))
         IN  Send(b, CommandLong("MAV_CMD_DO_SET_SERVO",
                                 <<servo_number, pwm, 0, 0, 0, 0, 0>>))

----------------------------------------------------------------------------
(* PowerRelay *)

set_relay_on(b, relay_number) ==
    Send(b, CommandLong("MAV_CMD_DO_SET_RELAY", <<relay_number, 1, 0, 0, 0, 0, 0>>))

set_relay_off(b, relay_number) ==
    Send(b, CommandLong("MAV_CMD_DO_SET_RELAY", <<relay_number, 0, 0, 0, 0, 0, 0>>))

\* disable_propulsion that needs a connected vehicle
disable_propulsion_connected(b) ==
    IF b.connected THEN set_relay_off(b, PROPULSION_RELAY) ELSE b

disable_propulsion(b) == set_relay_off(b, PROPULSION_RELAY)

enable_propulsion(b) == set_relay_on(b, PROPULSION_RELAY)

\* emergency_stop that also records the emergency in the status
emergency_stop_flagged(b) == [disable_propulsion(b) EXCEPT !.status = "EMERGENCY"]

emergency_stop(b) == disable_propulsion(b)

----------------------------------------------------------------------------
(* VehicleState *)

\* heartbeat.base_mode & MAV_MODE_FLAG_SAFETY_ARMED, base_mode a uint8
SafetyArmedBit(base_mode) ==
    ((base_mode \div MAV_MODE_FLAG_SAFETY_ARMED) % 2) * MAV_MODE_FLAG_SAFETY_ARMED

is_armed(b, heartbeat) ==
    [boat |-> Recv(b, "HEARTBEAT", heartbeat, b),
     ret  |-> IF heartbeat.kind # "none"
              THEN SafetyArmedBit(heartbeat.base_mode) # 0
              ELSE FALSE]

get_flight_mode(b, heartbeat) ==
    [boat |-> Recv(b, "HEARTBEAT", heartbeat, b),
     ret  |-> IF heartbeat.kind # "none" THEN heartbeat.custom_mode ELSE None]

\* arm_vehicle that takes the command for its effect
arm_vehicle_optimistic(b, heartbeat) ==
    LET b1 == Send(b, CommandLong("MAV_CMD_COMPONENT_ARM_DISARM", <<1, 0, 0, 0, 0, 0, 0>>))
        r  == is_armed(b1, heartbeat)
    IN  [boat |-> [r.boat EXCEPT !.status = "ARMED"], ret |-> r.ret]

arm_vehicle(b, heartbeat) ==
    LET b1 == Send(b, CommandLong("MAV_CMD_COMPONENT_ARM_DISARM", <<1, 0, 0, 0, 0, 0, 0>>))
        r  == is_armed(b1, heartbeat)
    IN  IF r.ret
        THEN [boat |-> [r.boat EXCEPT !.status = "ARMED"], ret |-> TRUE]
        ELSE [boat |-> r.boat, ret |-> FALSE]

disarm_vehicle(b, heartbeat) ==
    LET b1 == Send(b, CommandLong("MAV_CMD_COMPONENT_ARM_DISARM", <<0, 0, 0, 0, 0, 0, 0>>))
        r  == is_armed(b1, heartbeat)
    IN  IF ~r.ret
        THEN [boat |-> [r.boat EXCEPT !.status = "DISARMED"], ret |-> TRUE]
        ELSE [boat |-> r.boat, ret |-> FALSE]

\* vehicle.wait_heartbeat() returns the heartbeat, or None
wait_for_heartbeat(b, heartbeat) ==
    LET b1 == Recv(b, "WAIT_HEARTBEAT", heartbeat, b)
    IN  IF heartbeat.kind # "none"
        THEN [b1 EXCEPT !.heartbeat_received = TRUE, !.connected = TRUE]
        ELSE b1

\* close_connection that also recentres the setpoints
close_connection_reset(b) ==
    [b EXCEPT !.connected = FALSE,
              !.current_rudder_value = CENTER,
              !.current_throttle_value = CENTER]

\* self.__vehicle is the connection object made by __connect, always truthy
close_connection(b) == [b EXCEPT !.connected = FALSE]

----------------------------------------------------------------------------
(* Construction *)

\* Lines 48-58: the authority derived from the flight mode.
FlightModeAuthority(current_flight_mode) ==
    CASE current_flight_mode = 0 -> "MANUAL"
      [] current_flight_mode = 1 -> "REMOTE"
      [] current_flight_mode = 2 -> "AUTOMATIC"
      [] OTHER                   -> "UNDEFINED"

\* Boat.__init__ that keeps the authority derived from the flight mode
Boat_init_derived(hb1, hb2) ==
    LET b0 == [connected |-> FALSE,
               heartbeat_received |-> FALSE,
               status |-> "UNSET",
               control_authority |-> "UNSET",
               current_rudder_value |-> CENTER,
               current_throttle_value |-> CENTER,
               rc_channel_11_value |-> NoAttr,
               out |-> <<>>, outauth |-> <<>>, recvs |-> <<>>, asks |-> <<>>]
        a  == is_armed(b0, hb1)
        b1 == [a.boat EXCEPT !.status = IF a.ret THEN "ARMED" ELSE "UNDEFINED"]
        f  == get_flight_mode(b1, hb2)
    IN  [f.boat EXCEPT !.control_authority = FlightModeAuthority(f.ret)]

\* Boat.__init__; hb1 and hb2 are the Link's answers to its two heartbeat
\* queries.  status and authority have no value before their assignment.
Boat_init(hb1, hb2) ==
    LET b0 == [connected |-> FALSE,
               heartbeat_received |-> FALSE,
               status |-> "UNSET",
               control_authority |-> "UNSET",
               current_rudder_value |-> CENTER,
               current_throttle_value |-> CENTER,
               rc_channel_11_value |-> NoAttr,
               out |-> <<>>, outauth |-> <<>>, recvs |-> <<>>, asks |-> <<>>]
        a  == is_armed(b0, hb1)
        b1 == [a.boat EXCEPT !.status = IF a.ret THEN "ARMED" ELSE "UNDEFINED"]
        f  == get_flight_mode(b1, hb2)
        b2 == [f.boat EXCEPT !.control_authority = FlightModeAuthority(f.ret)]
    IN  [b2 EXCEPT !.control_authority = "REMOTE"]

NoArg == [kind |-> "none", n |-> 0]

\* Whether a setpoint has been stored that no override has carried yet: a
\* call that sends an override clears it, a call that changes a setpoint
\* without sending sets it.
Pending(was, pre, b) ==
    IF \E i \in 1..Len(b.out) : b.out[i].type = "RC_CHANNELS_OVERRIDE"
    THEN FALSE
    ELSE IF \/ b.current_rudder_value # pre.current_rudder_value
            \/ b.current_throttle_value # pre.current_throttle_value
         THEN TRUE
         ELSE was

\* The call op(arg, arg2) has returned ret and left the object as b.
Return(op, arg, arg2, ret, pre, b) ==
    /\ connected' = b.connected
    /\ heartbeat_received' = b.heartbeat_received
    /\ status' = b.status
    /\ control_authority' = b.control_authority
    /\ current_rudder_value' = b.current_rudder_value
    /\ current_throttle_value' = b.current_throttle_value
    /\ rc_channel_11_value' = b.rc_channel_11_value
    /\ link' = b.out
    /\ call' = [op |-> op, arg |-> arg, arg2 |-> arg2, ret |-> ret, pre |-> pre,
                recvs |-> b.recvs, outauth |-> b.outauth, asks |-> b.asks,
                was_pending |-> call.pending,
                pending |-> Pending(call.pending, pre, b)]

Constructed(b) ==
    /\ connected = b.connected
    /\ heartbeat_received = b.heartbeat_received
    /\ status = b.status
    /\ control_authority = b.control_authority
    /\ current_rudder_value = b.current_rudder_value
    /\ current_throttle_value = b.current_throttle_value
    /\ rc_channel_11_value = b.rc_channel_11_value
    /\ link = b.out
    /\ call = [op |-> "__init__", arg |-> NoArg, arg2 |-> 0, ret |-> "None",
               pre |-> Fields(b), recvs |-> b.recvs, outauth |-> b.outauth,
               asks |-> b.asks, was_pending |-> FALSE, pending |-> FALSE]

Init ==
    \E hb1 \in HeartbeatReplies, hb2 \in FlightModeReplies :
        Constructed(Boat_init(hb1, hb2))

\* The arbiter and the setters taken on their own: the object as constructed,
\* with the authority field ranging over the whole enumeration.
InitAnyAuthority ==
    \E hb1 \in HeartbeatReplies, hb2 \in FlightModeReplies, a \in ControlAuthority :
        Constructed([Boat_init(hb1, hb2) EXCEPT !.control_authority = a])

----------------------------------------------------------------------------
(* One action per public method *)

\* The Link answers a poll only when the call makes one: should_allow polls
\* when the authority it finds is UNDEFINED.
PollReplies(b) ==
    IF b.control_authority = "UNDEFINED" THEN RcReplies ELSE {NoMessage}

Bool(x) == IF x THEN "True" ELSE "False"

WaitForHeartbeat ==
    \E hb \in HeartbeatReplies :
        Return("wait_for_heartbeat", NoArg, 0, "None", Fields(Self),
               wait_for_heartbeat(Self, hb))

CheckRcMode ==
    \E m1 \in RcReplies : \E m2 \in PollReplies(poll_rc_mode_switch(Self, m1)) :
        Return("check_rc_mode", NoArg, 0, "None", Fields(Self),
               check_rc_mode(Self, m1, m2))

SetRudder ==
    \E x \in SetpointArgs, m \in PollReplies(Self) :
        Return("set_rudder", x, 0, "None", Fields(Self), set_rudder(Self, x, m))

SetThrottle ==
    \E x \in SetpointArgs, m \in PollReplies(Self) :
        Return("set_throttle", x, 0, "None", Fields(Self), set_throttle(Self, x, m))

SetThrottleDifferential ==
    \E l \in {0, 1600}, r \in {0} :
        LET res == set_throttle_differential(Self, l, r)
        IN  Return("set_throttle_differential", IntArg(l), r, res.ret,
                   Fields(Self), res.boat)

SetRawServo ==
    \E a \in ServoArgs :
        Return("set_raw_servo", IntArg(a[2]), a[1], "None", Fields(Self),
               set_raw_servo(Self, a[1], a[2]))

DisablePropulsion ==
    Return("disable_propulsion", NoArg, 0, "None", Fields(Self), disable_propulsion(Self))

EnablePropulsion ==
    Return("enable_propulsion", NoArg, 0, "None", Fields(Self), enable_propulsion(Self))

EmergencyStop ==
    Return("emergency_stop", NoArg, 0, "None", Fields(Self), emergency_stop(Self))

ArmVehicle ==
    \E hb \in HeartbeatReplies :
        LET r == arm_vehicle(Self, hb)
        IN  Return("arm_vehicle", NoArg, 0, Bool(r.ret), Fields(Self), r.boat)

DisarmVehicle ==
    \E hb \in HeartbeatReplies :
        LET r == disarm_vehicle(Self, hb)
        IN  Return("disarm_vehicle", NoArg, 0, Bool(r.ret), Fields(Self), r.boat)

IsArmed ==
    \E hb \in HeartbeatReplies :
        LET r == is_armed(Self, hb)
        IN  Return("is_armed", NoArg, 0, Bool(r.ret), Fields(Self), r.boat)

CloseConnection ==
    Return("close_connection", NoArg, 0, "None", Fields(Self), close_connection(Self))

Next ==
    \/ WaitForHeartbeat
    \/ CheckRcMode
    \/ SetRudder
    \/ SetThrottle
    \/ SetThrottleDifferential
    \/ SetRawServo
    \/ DisablePropulsion
    \/ EnablePropulsion
    \/ EmergencyStop
    \/ ArmVehicle
    \/ DisarmVehicle
    \/ IsArmed
    \/ CloseConnection

Spec == Init /\ [][Next]_vars

\* The calls that take the override decision, and those that set the
\* connected flag they test.
NextArbiter ==
    \/ WaitForHeartbeat
    \/ CloseConnection
    \/ CheckRcMode
    \/ SetRudder
    \/ SetThrottle

SpecArbiter == InitAnyAuthority /\ [][NextArbiter]_vars

----------------------------------------------------------------------------
(* Properties.  They speak of the call that has just returned: `call` holds *)
(* its name, arguments, result and the fields before it, `link` what it     *)
(* sent, the fields themselves what it left.                                *)

Setters == {"set_rudder", "set_throttle"}

IsOverride(m) == m.type = "RC_CHANNELS_OVERRIDE"

InBand(n) == 1100 <= n /\ n <= 1900

\* The setpoint the setter named op is responsible for, in a record of fields.
SetpointOf(op, f) ==
    IF op = "set_rudder" THEN f.current_rudder_value ELSE f.current_throttle_value

\* C1: an RC override is sent only while the authority is not Manual; under
\* Manual a setter called with a valid integer on a connected controller
\* stores the setpoint and transmits nothing.
C1_OverrideOnlyWhenNotManual ==
    /\ \A i \in 1..Len(link) :
           IsOverride(link[i]) => call.outauth[i] # "MANUAL"
    /\ ( /\ call.op \in Setters
         /\ call.pre.connected
         /\ call.pre.control_authority = "MANUAL"
         /\ call.arg.kind = "int"
         /\ InBand(call.arg.n) )
       => ( /\ link = <<>>
            /\ SetpointOf(call.op, Fields(Self)) = call.arg.n )

C1_Witness ==
    /\ call.op = "set_rudder"
    /\ call.pre.connected
    /\ call.pre.control_authority = "MANUAL"
    /\ call.arg = IntArg(1600)
    /\ call.pre.current_rudder_value # 1600
    /\ current_rudder_value = 1600
    /\ link = <<>>

\* C2: every PWM value sent to the Link, in the rudder and throttle slots of
\* an RC override and in the PWM parameter of a servo command, lies in
\* [1000, 2000].
C2_PwmWithinServoRange ==
    \A i \in 1..Len(link) :
        /\ IsOverride(link[i]) =>
               \A k \in 1..3 : 1000 <= link[i].p[k] /\ link[i].p[k] <= 2000
        /\ link[i].command = "MAV_CMD_DO_SET_SERVO" =>
               (1000 <= link[i].p[2] /\ link[i].p[2] <= 2000)

C2_Witness ==
    /\ call.op = "set_raw_servo"
    /\ call.arg.n > 2000
    /\ Len(link) = 1
    /\ link[1].command = "MAV_CMD_DO_SET_SERVO"
    /\ link[1].p[2] = 2000

\* C3: a poll that receives channel-11 value c leaves the authority Remote if
\* c > 1500, Manual if c < 1500, and as it was if c = 1500; a poll of 1400
\* that follows a poll of 1600 moves the authority from Remote to Manual.
C3_PollSetsAuthority ==
    /\ \A i \in 1..Len(call.recvs) :
           LET r == call.recvs[i] IN
           (r.type = "RC_CHANNELS" /\ r.reply.kind = "rc") =>
               /\ r.reply.chan11_raw > 1500 => r.after = "REMOTE"
               /\ r.reply.chan11_raw < 1500 => r.after = "MANUAL"
               /\ r.reply.chan11_raw = 1500 => r.after = r.before
    /\ ( /\ call.op = "check_rc_mode"
         /\ call.pre.rc_channel_11_value = 1600
         /\ call.recvs[1].reply = RcWith(1400) )
       => ( /\ call.pre.control_authority = "REMOTE"
            /\ control_authority = "MANUAL" )

C3_Witness ==
    /\ call.op = "check_rc_mode"
    /\ call.pre.rc_channel_11_value = 1600
    /\ call.pre.control_authority = "REMOTE"
    /\ call.recvs[1].reply = RcWith(1400)
    /\ control_authority = "MANUAL"

C5_SetterStoresInBand ==
    ( /\ call.op \in Setters
      /\ call.pre.connected
      /\ call.arg.kind = "int" )
    => SetpointOf(call.op, Fields(Self)) =
           IF InBand(call.arg.n) THEN call.arg.n ELSE SetpointOf(call.op, call.pre)

C5_Witness ==
    /\ call.op = "set_rudder"
    /\ call.pre.connected
    /\ call.pre.control_authority = "MANUAL"
    /\ call.arg = IntArg(1900)
    /\ call.pre.current_rudder_value = 1100
    /\ current_rudder_value = 1900

\* C6: a setter called on a connected controller with a value that is not
\* coercible to an integer, or with an integer outside [1100, 1900], changes
\* no field, takes no override decision and sends nothing.
C6_InvalidFailsSoftly ==
    ( /\ call.op \in Setters
      /\ call.pre.connected
      /\ \/ call.arg.kind = "bad"
         \/ call.arg.kind = "int" /\ ~InBand(call.arg.n) )
    => ( /\ Fields(Self) = call.pre
         /\ call.asks = <<>>
         /\ call.recvs = <<>>
         /\ link = <<>> )

\* C7: while the controller is not connected a setter changes no field, does
\* not poll, takes no override decision and sends nothing, whatever its
\* argument.
C7_NotConnectedNoEffect ==
    ( /\ call.op \in Setters
      /\ ~call.pre.connected )
    => ( /\ Fields(Self) = call.pre
         /\ call.asks = <<>>
         /\ call.recvs = <<>>
         /\ link = <<>> )

C7_Witness ==
    /\ call.op = "set_throttle"
    /\ call.arg = IntArg(1600)
    /\ ~call.pre.connected
    /\ call.pre.heartbeat_received
    /\ call.pre.control_authority = "REMOTE"
    /\ current_throttle_value = 1500
    /\ link = <<>>

\* C8: on a connected controller set_raw_servo(n, p) sends exactly one
\* servo-set command for servo n with PWM p clamped into [1000, 2000], under
\* every authority, without an override decision, a poll or a change of any
\* field; when not connected it sends nothing.
C8_RawServoClampedUngated ==
    call.op = "set_raw_servo" =>
        LET p == call.arg.n
            clamped == IF p < 1000 THEN 1000 ELSE IF p > 2000 THEN 2000 ELSE p
        IN  /\ Fields(Self) = call.pre
            /\ call.asks = <<>>
            /\ call.recvs = <<>>
            /\ link = IF call.pre.connected
                      THEN << [type |-> "COMMAND_LONG",
                               command |-> "MAV_CMD_DO_SET_SERVO",
                               p |-> <<call.arg2, clamped, 0, 0, 0, 0, 0>>] >>
                      ELSE <<>>

C8_Witness ==
    /\ call.op = "set_raw_servo"
    /\ call.pre.connected
    /\ call.pre.control_authority = "MANUAL"
    /\ call.arg.n < 1000
    /\ Len(link) = 1
    /\ link[1].p[2] = 1000

\* C9: disable_propulsion, enable_propulsion and emergency_stop send exactly
\* one relay command for relay index 1 (off, on, off) in every state, under
\* every authority and whether connected or not, and change no field.
C9_RelayUnconditional ==
    call.op \in {"disable_propulsion", "enable_propulsion", "emergency_stop"} =>
        /\ link = << [type |-> "COMMAND_LONG",
                      command |-> "MAV_CMD_DO_SET_RELAY",
                      p |-> <<1, IF call.op = "enable_propulsion" THEN 1 ELSE 0,
                              0, 0, 0, 0, 0>>] >>
        /\ Fields(Self) = call.pre
        /\ call.asks = <<>>
        /\ call.recvs = <<>>

C9_Witness ==
    /\ call.op = "emergency_stop"
    /\ call.pre.control_authority = "MANUAL"
    /\ ~call.pre.connected
    /\ call.pre.status = "ARMED"
    /\ Len(link) = 1
    /\ link[1].command = "MAV_CMD_DO_SET_RELAY"
    /\ link[1].p[2] = 0

\* C10: arm_vehicle sends the arm command and then asks for one heartbeat; it
\* returns True and sets the status to ARMED if that heartbeat arrives with
\* the safety-armed bit (128) set, and otherwise returns False and leaves
\* the status as it was.
C10_ArmConfirmedByHeartbeat ==
    call.op = "arm_vehicle" =>
        /\ link = << [type |-> "COMMAND_LONG",
                      command |-> "MAV_CMD_COMPONENT_ARM_DISARM",
                      p |-> <<1, 0, 0, 0, 0, 0, 0>>] >>
        /\ Len(call.recvs) = 1
        /\ call.recvs[1].type = "HEARTBEAT"
        /\ call.recvs[1].nsent = 1
        /\ LET hb == call.recvs[1].reply
               confirmed == hb.kind = "heartbeat" /\ hb.base_mode >= 128
           IN  IF confirmed
               THEN call.ret = "True" /\ status = "ARMED"
               ELSE call.ret = "False" /\ status = call.pre.status

C10_Witness ==
    /\ call.op = "arm_vehicle"
    /\ call.pre.status = "DISARMED"
    /\ call.recvs[1].reply.kind = "heartbeat"
    /\ call.recvs[1].reply.base_mode = 81
    /\ call.ret = "False"
    /\ status = "DISARMED"

\* C11: disarm_vehicle returns True and sets the status to DISARMED only if
\* the heartbeat it asks for after the disarm command arrives with the
\* safety-armed bit (128) clear; otherwise it returns False and leaves the
\* status as it was.
C11_DisarmConfirmedByHeartbeat ==
    call.op = "disarm_vehicle" =>
        /\ link = << [type |-> "COMMAND_LONG",
                      command |-> "MAV_CMD_COMPONENT_ARM_DISARM",
                      p |-> <<0, 0, 0, 0, 0, 0, 0>>] >>
        /\ Len(call.recvs) = 1
        /\ call.recvs[1].type = "HEARTBEAT"
        /\ call.recvs[1].nsent = 1
        /\ LET hb == call.recvs[1].reply
               confirmed == hb.kind = "heartbeat" /\ hb.base_mode < 128
           IN  IF confirmed
               THEN call.ret = "True" /\ status = "DISARMED"
               ELSE call.ret = "False" /\ status = call.pre.status

\* C12: right after construction the authority is REMOTE, whatever the two
\* start-up heartbeat queries returned (flight mode 0, 1, 2, another value,
\* or no heartbeat).
C12_InitialAuthorityRemote ==
    call.op = "__init__" => control_authority = "REMOTE"

C12_Witness ==
    /\ call.op = "__init__"
    /\ Len(call.recvs) = 2
    /\ call.recvs[2].reply.kind = "heartbeat"
    /\ call.recvs[2].reply.custom_mode = 0
    /\ control_authority = "REMOTE"

\* C13: every RC override sent carries the eight values (rudder, throttle,
\* throttle, 0, 0, 0, 0, 0) of the setpoints stored when it is sent; on a
\* connected controller made Remote by a channel-11 reading of 1700,
\* set_rudder(1600) stores 1600 and sends (1600, throttle, throttle, 0, ...).
C13_OverrideCarriesSetpoints ==
    /\ \A i \in 1..Len(link) :
           IsOverride(link[i]) =>
               link[i].p = <<current_rudder_value, current_throttle_value,
                             current_throttle_value, 0, 0, 0, 0, 0>>
    /\ ( /\ call.op = "set_rudder"
         /\ call.arg = IntArg(1600)
         /\ call.pre.connected
         /\ call.pre.rc_channel_11_value = 1700 )
       => ( /\ call.pre.control_authority = "REMOTE"
            /\ current_rudder_value = 1600
            /\ link = << [type |-> "RC_CHANNELS_OVERRIDE", command |-> "",
                          p |-> <<1600, call.pre.current_throttle_value,
                                  call.pre.current_throttle_value,
                                  0, 0, 0, 0, 0>>] >> )

C13_Witness ==
    /\ call.op = "set_rudder"
    /\ call.arg = IntArg(1600)
    /\ call.pre.connected
    /\ call.pre.rc_channel_11_value = 1700
    /\ call.pre.current_rudder_value = 1500
    /\ call.pre.current_throttle_value = 1100
    /\ Len(link) = 1
    /\ link[1].p = <<1600, 1100, 1100, 0, 0, 0, 0, 0>>

\* C14: set_throttle_differential fails with NotImplementedError for every
\* pair of arguments, (0, 0) included, in every state; it changes no field
\* and sends nothing.
C14_DifferentialUnsupported ==
    call.op = "set_throttle_differential" =>
        /\ call.ret = "NotImplementedError"
        /\ Fields(Self) = call.pre
        /\ call.asks = <<>>
        /\ call.recvs = <<>>
        /\ link = <<>>

C14_Witness ==
    /\ call.op = "set_throttle_differential"
    /\ call.arg = IntArg(0)
    /\ call.arg2 = 0
    /\ call.pre.connected
    /\ call.pre.control_authority = "MANUAL"
    /\ call.ret = "NotImplementedError"

\* C15: a poll that gets no message, or a message without channel 11, leaves
\* the authority as it was and the call ends without an error; every poll,
\* whatever it gets, leaves setpoints, status and the connected flag alone
\* and sends nothing.
C15_PollFrame ==
    /\ \A i \in 1..Len(call.recvs) :
           LET r == call.recvs[i] IN
           r.type = "RC_CHANNELS" =>
               /\ r.reply.kind \in {"none", "rc_no_chan11"} => r.after = r.before
               /\ r.kept
               /\ r.sent = 0
    /\ call.op = "check_rc_mode" =>
           /\ call.ret = "None"
           /\ connected = call.pre.connected
           /\ status = call.pre.status
           /\ current_rudder_value = call.pre.current_rudder_value
           /\ current_throttle_value = call.pre.current_throttle_value

C15_Witness ==
    /\ call.op = "check_rc_mode"
    /\ call.pre.control_authority = "MANUAL"
    /\ call.pre.rc_channel_11_value = 1400
    /\ Len(call.recvs) = 1
    /\ call.recvs[1].reply = RcWithout
    /\ rc_channel_11_value = None
    /\ control_authority = "MANUAL"
    /\ link = <<>>

\* C16: a stored setpoint changes only in a validated call of its own setter
\* on a connected controller (set_rudder the rudder, set_throttle the
\* throttle); every other call, and every rejected setter call, leaves both
\* as they were: no decay, no reset to 1500.
C16_SetpointsOnlyBySetters ==
    /\ current_rudder_value # call.pre.current_rudder_value =>
           /\ call.op = "set_rudder"
           /\ call.pre.connected
           /\ call.arg.kind \in {"int", "float"}
           /\ call.arg.kind = "int" => current_rudder_value = call.arg.n
           /\ InBand(current_rudder_value)
    /\ current_throttle_value # call.pre.current_throttle_value =>
           /\ call.op = "set_throttle"
           /\ call.pre.connected
           /\ call.arg.kind \in {"int", "float"}
           /\ call.arg.kind = "int" => current_throttle_value = call.arg.n
           /\ InBand(current_throttle_value)

C16_Witness ==
    /\ call.op = "close_connection"
    /\ call.pre.control_authority = "MANUAL"
    /\ call.pre.current_rudder_value = 1600
    /\ call.pre.current_throttle_value = 1900
    /\ current_rudder_value = 1600
    /\ current_throttle_value = 1900

\* C17: the status is never EMERGENCY, after emergency_stop, arm_vehicle and
\* disarm_vehicle as after every other call.
C17_NeverEmergency ==
    /\ status # "EMERGENCY"
    /\ call.op = "emergency_stop" => status = call.pre.status

C17_Witness ==
    /\ call.op = "emergency_stop"
    /\ call.pre.status = "DISARMED"
    /\ status = "DISARMED"
    /\ Len(link) = 1

\* C18: after construction the authority is always REMOTE or MANUAL; no
\* override decision ever polls, and the authority changes only in the poll
\* of a check_rc_mode call.
C18_AuthorityRemoteOrManual ==
    /\ control_authority \in {"REMOTE", "MANUAL"}
    /\ \A i \in 1..Len(call.asks) :
           call.asks[i].polls = 0 /\ call.asks[i].before # "UNDEFINED"
    /\ control_authority # call.pre.control_authority =>
           /\ call.op = "check_rc_mode"
           /\ Len(call.recvs) = 1
           /\ call.recvs[1].type = "RC_CHANNELS"
           /\ call.recvs[1].before = call.pre.control_authority
           /\ call.recvs[1].after = control_authority

C18_Witness ==
    /\ call.op = "check_rc_mode"
    /\ call.pre.control_authority = "MANUAL"
    /\ control_authority = "REMOTE"
    /\ Len(call.asks) = 1
    /\ call.asks[1].polls = 0
    /\ Len(call.recvs) = 1

\* C19: a check_rc_mode call made under MANUAL whose poll reads a channel-11
\* value above 1500 switches the authority to REMOTE and sends one override
\* carrying the setpoints as stored before the call, so a setpoint stored
\* under MANUAL and not yet transmitted goes out unchanged, without a new
\* setter call.
C19_StoredSetpointSentOnSwitch ==
    ( /\ call.op = "check_rc_mode"
      /\ call.pre.control_authority = "MANUAL"
      /\ call.recvs[1].reply.kind = "rc"
      /\ call.recvs[1].reply.chan11_raw > 1500 )
    => ( /\ control_authority = "REMOTE"
         /\ link = << [type |-> "RC_CHANNELS_OVERRIDE", command |-> "",
                       p |-> <<call.pre.current_rudder_value,
                               call.pre.current_throttle_value,
                               call.pre.current_throttle_value,
                               0, 0, 0, 0, 0>>] >>
         /\ current_rudder_value = call.pre.current_rudder_value
         /\ current_throttle_value = call.pre.current_throttle_value
         /\ ~call.pending )

C19_Witness ==
    /\ call.op = "check_rc_mode"
    /\ call.pre.control_authority = "MANUAL"
    /\ call.was_pending
    /\ call.pre.current_rudder_value = 1600
    /\ call.recvs[1].reply = RcWith(1700)
    /\ control_authority = "REMOTE"
    /\ Len(link) = 1
    /\ link[1].p[1] = 1600
    /\ ~call.pending

\* C20: check_rc_mode polls the RC channel once and then sends exactly one
\* RC override if the authority after the poll is not MANUAL and nothing
\* otherwise, whether the controller is connected or not.
C20_KeepAliveUngated ==
    call.op = "check_rc_mode" =>
        /\ Len(call.recvs) = 1
        /\ call.recvs[1].type = "RC_CHANNELS"
        /\ call.recvs[1].nsent = 0
        /\ Len(link) = IF call.recvs[1].after # "MANUAL" THEN 1 ELSE 0
        /\ \A i \in 1..Len(link) : IsOverride(link[i])
        /\ connected = call.pre.connected

C20_Witness ==
    /\ call.op = "check_rc_mode"
    /\ ~call.pre.connected
    /\ ~call.pre.heartbeat_received
    /\ call.recvs[1].after = "REMOTE"
    /\ Len(link) = 1
    /\ IsOverride(link[1])

====
